---- MODULE Spec2Model ----
(***************************************************************************)
(* Model of src/app.py: the job-instruction dashboard.  Every user         *)
(* interaction re-runs main(): the collection is loaded from the JSON data *)
(* file, one page handler runs (add_instruction or edit_instruction with   *)
(* one of its two submit buttons), mutates the in-memory list and the      *)
(* uploads directory, and saves the list back with save_data.              *)
(*                                                                         *)
(* Representation.  A storage name is the sequence of its "_"-separated    *)
(* tokens, so f"{id}_{name}" is <<id>> \o name and                         *)
(* old_filename.split('_', 1)[-1] is Tail (uuid4 strings hold no "_").     *)
(* A stored date "%Y-%m-%d" is the triple of its three numeric fields.     *)
(* History and version timestamps (datetime.now()) are left out: no        *)
(* branch of the code reads them.                                          *)
(***************************************************************************)
EXTENDS Integers, Sequences, FiniteSets, TLC

VARIABLES
    disk,       \* data/instructions.json: [kind, recs]
    uploads,    \* uploads/ directory: storage name -> bytes
    data,       \* the in-memory list `data` of the latest script run
    session,    \* st.session_state: ids i whose confirm_delete_<i> is set
    nextId,     \* number of uuid4() draws so far
    lastOp,     \* the handler run that led to this state
    ops,        \* number of handler runs so far
    failures,   \* number of handler runs that ended with an I/O call raising
    od_in,      \* is_outdated: the argument last_update_date
    od_now,     \* is_outdated: the value of datetime.now()
    od_out,     \* is_outdated: <<>> before the call, then <<its result>>
    pc,         \* per browser session: where its script run stands
    mem,        \* per browser session: the list `data` of its script run
    req,        \* per browser session: the submission its run handles
    flags       \* per browser session: its st.session_state confirm flags

vars == <<disk, uploads, data, session, nextId, lastOp, ops, failures,
          od_in, od_now, od_out, pc, mem, req, flags>>
mainVars == <<disk, uploads, data, session, nextId, lastOp, ops, failures>>
odVars == <<od_in, od_now, od_out>>
sessVars == <<pc, mem, req, flags>>

----------------------------------------------------------------------------
(* Bounds *)

MaxOps == 4         \* handler runs in one behaviour of Spec
MaxFieldOps == 3    \* handler runs in one behaviour of SpecFields
MaxAdds == 2        \* uuid4() draws: records created or attempted
MaxFailures == 1    \* handler runs in which an I/O call raises
MaxSteps == 8       \* script steps in one behaviour of SpecSessions

----------------------------------------------------------------------------
(* Values *)

None == <<>>                                  \* Python None for 'filename'
NoFile == [name |-> <<>>, content |-> ""]     \* uploaded_file is None
NoDate == [y |-> 0, m |-> 0, d |-> 0]         \* an empty date input

\* A slip: the version number is left out of the name.
VTok_unnumbered(n) == "v"
VTok(n) == "v" \o ToString(n)                 \* f"v{version_num}"
\* A slip: every draw gives the same id.
uuid4_fixed(n) == "id1"
uuid4(n) == "id" \o ToString(n)               \* the n-th str(uuid.uuid4())

strftime(dt) == <<dt.y, dt.m, dt.d>>          \* dt.strftime("%Y-%m-%d")

Date1 == [y |-> 2023, m |-> 1, d |-> 1]
Date2 == [y |-> 2024, m |-> 6, d |-> 1]

BaseForm ==
    [title |-> "HR Policy", department |-> "HR",
     registration_date |-> Date1, last_update |-> Date1,
     responsible |-> "A. Ivanov", email |-> "a@x.com"]

AltForm ==
    [title |-> "IT Policy", department |-> "IT",
     registration_date |-> Date2, last_update |-> Date2,
     responsible |-> "B. Petrov", email |-> "b@x.com"]

EmptyForm ==
    [title |-> "", department |-> "",
     registration_date |-> NoDate, last_update |-> NoDate,
     responsible |-> "", email |-> ""]

FieldNames ==
    {"title", "department", "registration_date", "last_update",
     "responsible", "email"}

\* The form f with the fields in S taken from g.
Mix(f, g, S) == [k \in FieldNames |-> IF k \in S THEN g[k] ELSE f[k]]

\* Submitted forms: the base form, the base form with one field altered,
\* the fully altered form, and both with one field left empty.
ValidForms ==
    {BaseForm, AltForm} \cup {Mix(BaseForm, AltForm, {k}) : k \in FieldNames}
InvalidForms ==
    {Mix(BaseForm, EmptyForm, {k}) : k \in FieldNames}
        \cup {Mix(AltForm, EmptyForm, {"title"})}
Forms == ValidForms \cup InvalidForms
Titles == {f.title : f \in ValidForms}

\* The forms of the lifecycle specification.
LifecycleForms == {BaseForm, AltForm}

\* Uploaded files: a name (its "_"-separated tokens) and the bytes.
File1 == [name |-> <<"policy.pdf">>, content |-> "c1"]
File2 == [name |-> <<"v1", "policy.pdf">>, content |-> "c2"]
Files == {NoFile, File1, File2}
FieldFiles == {NoFile, File1}

\* How a handler run ends: normally, or with the named I/O call raising.
Failures == {"copy", "remove", "write", "savecut"}
Outcomes == {"ok"} \cup Failures

----------------------------------------------------------------------------
(* Helpers *)

Min(S) == CHOOSE x \in S : \A y \in S : x <= y
Max(S) == CHOOSE x \in S : \A y \in S : x >= y

\* open(path, 'wb').write(bytes) / shutil.copy2 destination
Put(up, name, bytes) ==
    [n \in DOMAIN up \cup {name} |-> IF n = name THEN bytes ELSE up[n]]
\* os.remove(path)
Remove(up, name) == [n \in DOMAIN up \ {name} |-> up[n]]
\* os.path.exists(path)
Exists(up, name) == name \in DOMAIN up

\* A slip: the last field is left out of the check.
AllFilled_no_email(f) ==
    /\ f.title # ""
    /\ f.department # ""
    /\ f.registration_date # NoDate
    /\ f.last_update # NoDate
    /\ f.responsible # ""

\* all([title, department, registration_date, last_update, responsible, email])
AllFilled(f) ==
    /\ f.title # ""
    /\ f.department # ""
    /\ f.registration_date # NoDate
    /\ f.last_update # NoDate
    /\ f.responsible # ""
    /\ f.email # ""

load_data ==
    IF disk.kind = "valid" THEN disk.recs ELSE <<>>

\* save_data(d) ending as `outcome`.  open(DATA_FILE, 'w') truncates the
\* file, then json.dump writes it piece by piece: a failure in between
\* ("savecut") leaves a strict prefix of the text, which is no record list
\* (its bytes are not tracked).
save_data(d, outcome) ==
    IF outcome = "savecut"
    THEN [kind |-> "partial", recs |-> <<>>]
    ELSE [kind |-> "valid", recs |-> d]

\* A slip: the entry is put in front of the earlier ones.
add_history_entry_front(instruction, change_type, details) ==
    [instruction EXCEPT !.history =
        <<[change_type |-> change_type, details |-> details,
           user |-> "System"]>> \o @]

add_history_entry(instruction, change_type, details) ==
    [instruction EXCEPT !.history =
        Append(@, [change_type |-> change_type, details |-> details,
                   user |-> "System"])]

\* The record kept of a handler run: the handler, the record id it
\* created or selected, how it ended ("ok", "invalid", "confirm" or the
\* call that raised), whether a file was uploaded with the form, and
\* whether the form had an empty required field.
Op(op, id, outcome, file, form) ==
    [op |-> op, id |-> id, outcome |-> outcome, file |-> file # NoFile,
     empty |-> \E k \in FieldNames : form[k] = EmptyForm[k]]

----------------------------------------------------------------------------
(* add_instruction: the submit branch of the "add" page *)

\* A slip: has_file set whether or not a file was uploaded.
new_instruction_has_file(id, form, file) ==
    [id |-> id,
     title |-> form.title,
     department |-> form.department,
     registration_date |-> strftime(form.registration_date),
     last_update |-> strftime(form.last_update),
     responsible |-> form.responsible,
     email |-> form.email,
     has_file |-> TRUE,
     filename |-> None,
     history |-> <<>>,
     file_versions |-> <<>>]

new_instruction(id, form, file) ==
    [id |-> id,
     title |-> form.title,
     department |-> form.department,
     registration_date |-> strftime(form.registration_date),
     last_update |-> strftime(form.last_update),
     responsible |-> form.responsible,
     email |-> form.email,
     has_file |-> file # NoFile,
     filename |-> None,
     history |-> <<>>,
     file_versions |-> <<>>]

\* A slip: the upload is stored but no history entry is written for it.
AddedRecord_no_file_entry(id, form, file) ==
    LET created == add_history_entry(new_instruction(id, form, file),
                       "Create", << <<"created", form.title>> >>)
    IN  IF file # NoFile
        THEN [created EXCEPT !.filename = <<id>> \o file.name]
        ELSE created

\* The record as appended to data when the upload (if any) was written.
AddedRecord(id, form, file) ==
    LET created == add_history_entry(new_instruction(id, form, file),
                       "Create", << <<"created", form.title>> >>)
    IN  IF file # NoFile
        THEN add_history_entry([created EXCEPT !.filename = <<id>> \o file.name],
                 "File", << <<"uploaded">> \o file.name >>)
        ELSE created

add_instruction(form, file, outcome) ==
    LET d0 == load_data
        id == uuid4(nextId + 1)
        d1 == Append(d0, AddedRecord(id, form, file))
    IN  IF ~AllFilled(form)
        THEN /\ outcome = "ok"
             /\ data' = d0
             /\ lastOp' = Op("add", "", "invalid", file, form)
             /\ UNCHANGED <<disk, uploads, session, nextId>>
        ELSE /\ nextId < MaxAdds
             /\ outcome \in {"ok", "write", "savecut"}
             /\ outcome = "write" => file # NoFile
             /\ nextId' = nextId + 1
             /\ lastOp' = Op("add", id, outcome, file, form)
             /\ UNCHANGED session
             /\ IF outcome = "write"
                THEN /\ data' = d0
                     /\ UNCHANGED <<disk, uploads>>
                ELSE /\ uploads' = IF file # NoFile
                                   THEN Put(uploads, <<id>> \o file.name, file.content)
                                   ELSE uploads
                     /\ data' = d1
                     /\ disk' = save_data(d1, outcome)

----------------------------------------------------------------------------
(* edit_instruction: selection, the "update" submit and the "delete" submit *)

\* instruction_options = {item['title']: item['id'] for item in data}:
\* a later record with the same title replaces the earlier one's id.
instruction_options(d) ==
    [t \in {d[i].title : i \in DOMAIN d} |->
        d[Max({i \in DOMAIN d : d[i].title = t})].id]

\* next(item for item in data if item['id'] == selected_id), as an index
FindIndex(d, id) == Min({i \in DOMAIN d : d[i].id = id})

\* The list `changes` built from the field-by-field comparison.
Changes(ins, form) ==
    (IF ins.title # form.title
        THEN << <<"title", ins.title, form.title>> >> ELSE <<>>)
    \o (IF ins.department # form.department
        THEN << <<"department", ins.department, form.department>> >> ELSE <<>>)
    \o (IF ins.registration_date # strftime(form.registration_date)
        THEN << <<"registration_date">> >> ELSE <<>>)
    \o (IF ins.last_update # strftime(form.last_update)
        THEN << <<"last_update">> >> ELSE <<>>)
    \o (IF ins.responsible # form.responsible
        THEN << <<"responsible", ins.responsible, form.responsible>> >> ELSE <<>>)
    \o (IF ins.email # form.email
        THEN << <<"email">> >> ELSE <<>>)

\* instruction.update({...})
UpdateFields(ins, form) ==
    [ins EXCEPT !.title = form.title,
                !.department = form.department,
                !.registration_date = strftime(form.registration_date),
                !.last_update = strftime(form.last_update),
                !.responsible = form.responsible,
                !.email = form.email]

\* A slip: the Edit entry is written without the `if changes:` test.
EditFields_always(ins, form) ==
    add_history_entry(UpdateFields(ins, form), "Edit", Changes(ins, form))

\* The field part of the update: the diff, the update and the Edit entry.
EditFields(ins, form) ==
    LET changes == Changes(ins, form)
    IN  IF changes # <<>>
        THEN add_history_entry(UpdateFields(ins, form), "Edit", changes)
        ELSE UpdateFields(ins, form)

\* The old file is archived only when the record names one and it exists.
WillArchive(ins, up) == ins.filename # None /\ Exists(up, ins.filename)

\* The `if uploaded_file:` block, ending as `outcome`: the record and the
\* uploads directory as they are when the block ends or the call raises.
ReplaceFile(ins, up, file, outcome) ==
    LET old_filename == ins.filename
        archive == WillArchive(ins, up)
        version_num == Len(ins.file_versions) + 1
        original_name == Tail(old_filename)
        version_filename == <<ins.id, VTok(version_num)>> \o original_name
        copied == archive /\ outcome # "copy"
        up1 == IF copied THEN Put(up, version_filename, up[old_filename]) ELSE up
        ins1 == IF copied
                THEN [ins EXCEPT !.file_versions =
                        Append(@, [version |-> version_num,
                                   filename |-> version_filename,
                                   original_name |-> original_name])]
                ELSE ins
        up2 == IF copied /\ outcome # "remove" THEN Remove(up1, old_filename) ELSE up1
        raised == (archive /\ outcome \in {"copy", "remove"}) \/ outcome = "write"
        filename == <<ins.id>> \o file.name
        up3 == Put(up2, filename, file.content)
        ins3 == add_history_entry(
                    [ins1 EXCEPT !.filename = filename, !.has_file = TRUE],
                    "File", << <<"uploaded">> \o file.name >>)
    IN  IF raised
        THEN [ins |-> ins1, up |-> up2, raised |-> TRUE]
        ELSE [ins |-> ins3, up |-> up3, raised |-> FALSE]

edit_instruction_update(selected_title, form, file, outcome) ==
    LET d0 == load_data
    IN  /\ d0 # <<>>
        /\ selected_title \in DOMAIN instruction_options(d0)
        /\ LET selected_id == instruction_options(d0)[selected_title]
               idx == FindIndex(d0, selected_id)
               instruction == d0[idx]
               edited == EditFields(instruction, form)
               r == IF file # NoFile
                    THEN ReplaceFile(edited, uploads, file, outcome)
                    ELSE [ins |-> edited, up |-> uploads, raised |-> FALSE]
               d1 == [d0 EXCEPT ![idx] = r.ins]
           IN  IF ~AllFilled(form)
               THEN /\ outcome = "ok"
                    /\ data' = d0
                    /\ lastOp' = Op("update", selected_id, "invalid", file, form)
                    /\ UNCHANGED <<disk, uploads, session, nextId>>
               ELSE /\ outcome \in {"copy", "remove"} =>
                        file # NoFile /\ WillArchive(instruction, uploads)
                    /\ outcome = "write" => file # NoFile
                    /\ data' = d1
                    /\ uploads' = r.up
                    /\ disk' = IF r.raised THEN disk ELSE save_data(d1, outcome)
                    /\ lastOp' = Op("update", selected_id, outcome, file, form)
                    /\ UNCHANGED <<session, nextId>>

\* data.remove(instruction): the first element equal to it is dropped.
ListRemove(d, x) ==
    LET k == Min({i \in DOMAIN d : d[i] = x})
    IN  SubSeq(d, 1, k - 1) \o SubSeq(d, k + 1, Len(d))

\* A slip: the record is removed at the first press, with no confirmation.
edit_instruction_delete_at_once(selected_title, outcome) ==
    LET d0 == load_data
    IN  /\ d0 # <<>>
        /\ selected_title \in DOMAIN instruction_options(d0)
        /\ outcome = "ok"
        /\ LET selected_id == instruction_options(d0)[selected_title]
               instruction == d0[FindIndex(d0, selected_id)]
               d1 == ListRemove(d0, instruction)
           IN  /\ uploads' = IF WillArchive(instruction, uploads)
                             THEN Remove(uploads, instruction.filename)
                             ELSE uploads
               /\ data' = d1
               /\ disk' = save_data(d1, outcome)
               /\ session' = session \ {selected_id}
               /\ lastOp' = Op("delete", selected_id, outcome, NoFile, BaseForm)
               /\ UNCHANGED nextId

edit_instruction_delete(selected_title, outcome) ==
    LET d0 == load_data
    IN  /\ d0 # <<>>
        /\ selected_title \in DOMAIN instruction_options(d0)
        /\ LET selected_id == instruction_options(d0)[selected_title]
               instruction == d0[FindIndex(d0, selected_id)]
               has == WillArchive(instruction, uploads)
               d1 == ListRemove(d0, instruction)
           IN  IF selected_id \notin session
               THEN /\ outcome = "ok"
                    /\ session' = session \cup {selected_id}
                    /\ data' = d0
                    /\ lastOp' = Op("delete", selected_id, "confirm", NoFile, BaseForm)
                    /\ UNCHANGED <<disk, uploads, nextId>>
               ELSE /\ outcome \in {"ok", "remove", "savecut"}
                    /\ outcome = "remove" => has
                    /\ lastOp' = Op("delete", selected_id, outcome, NoFile, BaseForm)
                    /\ UNCHANGED nextId
                    /\ IF outcome = "remove"
                       THEN /\ data' = d0
                            /\ UNCHANGED <<disk, uploads, session>>
                       ELSE /\ uploads' = IF has
                                          THEN Remove(uploads, instruction.filename)
                                          ELSE uploads
                            /\ data' = d1
                            /\ disk' = save_data(d1, outcome)
                            /\ session' = IF outcome = "ok"
                                          THEN session \ {selected_id}
                                          ELSE session

----------------------------------------------------------------------------
(* is_outdated: datetime.strptime, timedelta arithmetic and the comparison. *)
(* A text is the sequence of its characters.                                *)

Digits == <<"0", "1", "2", "3", "4", "5", "6", "7", "8", "9">>
IsDigit(c) == \E i \in 1 .. 10 : Digits[i] = c
DigitVal(c) == (CHOOSE i \in 1 .. 10 : Digits[i] = c) - 1

IsLeap(y) == (y % 4 = 0 /\ y % 100 # 0) \/ y % 400 = 0
DaysInMonth(y, m) ==
    IF m = 2 THEN (IF IsLeap(y) THEN 29 ELSE 28)
    ELSE IF m \in {4, 6, 9, 11} THEN 30 ELSE 31

RECURSIVE DaysBeforeMonth(_, _)
DaysBeforeMonth(y, m) ==
    IF m <= 1 THEN 0 ELSE DaysBeforeMonth(y, m - 1) + DaysInMonth(y, m - 1)

\* date.toordinal(): the day number in the proleptic Gregorian calendar
toordinal(y, m, d) ==
    (y - 1) * 365 + ((y - 1) \div 4) - ((y - 1) \div 100) + ((y - 1) \div 400)
        + DaysBeforeMonth(y, m) + d

\* The length of the match of the directive %m at position p of s, 0 if
\* none: the regular expression 1[0-2]|0[1-9]|[1-9].
MatchMonth(s, p) ==
    LET two == Len(s) >= p + 1
        one == Len(s) >= p
    IN  IF two /\ s[p] = "1" /\ s[p + 1] \in {"0", "1", "2"} THEN 2
        ELSE IF two /\ s[p] = "0" /\ IsDigit(s[p + 1]) /\ s[p + 1] # "0" THEN 2
        ELSE IF one /\ IsDigit(s[p]) /\ s[p] # "0" THEN 1
        ELSE 0

\* The same for %d: 3[01]|[12]\d|0[1-9]|[1-9]| [1-9].
MatchDay(s, p) ==
    LET two == Len(s) >= p + 1
        one == Len(s) >= p
    IN  IF two /\ s[p] = "3" /\ s[p + 1] \in {"0", "1"} THEN 2
        ELSE IF two /\ s[p] \in {"1", "2"} /\ IsDigit(s[p + 1]) THEN 2
        ELSE IF two /\ s[p] = "0" /\ IsDigit(s[p + 1]) /\ s[p + 1] # "0" THEN 2
        ELSE IF one /\ IsDigit(s[p]) /\ s[p] # "0" THEN 1
        ELSE IF two /\ s[p] = " " /\ IsDigit(s[p + 1]) /\ s[p + 1] # "0" THEN 2
        ELSE 0

\* The number written by the characters p .. p + n - 1 of s (a leading
\* space counts as nothing).
RECURSIVE NumberAt(_, _, _)
NumberAt(s, p, n) ==
    IF n = 0 THEN 0
    ELSE NumberAt(s, p, n - 1) * 10
            + (IF s[p + n - 1] = " " THEN 0 ELSE DigitVal(s[p + n - 1]))

\* datetime.strptime(s, "%Y-%m-%d"): the date, or ok = FALSE for ValueError
\* (no match, unconverted data remaining, or no such day in the calendar).
strptime(s) ==
    LET yOk == Len(s) >= 5 /\ (\A i \in 1 .. 4 : IsDigit(s[i])) /\ s[5] = "-"
        mLen == IF yOk THEN MatchMonth(s, 6) ELSE 0
        p == 6 + mLen
        mOk == mLen > 0 /\ Len(s) >= p /\ s[p] = "-"
        dLen == IF mOk THEN MatchDay(s, p + 1) ELSE 0
        y == NumberAt(s, 1, 4)
        m == NumberAt(s, 6, mLen)
        d == NumberAt(s, p + 1, dLen)
    IN  IF dLen > 0 /\ p + dLen = Len(s) /\ y >= 1 /\ d <= DaysInMonth(y, m)
        THEN [ok |-> TRUE, day |-> toordinal(y, m, d), sec |-> 0]
        ELSE [ok |-> FALSE, day |-> 0, sec |-> 0]

\* A slip: the days are compared and the time of day is dropped.
is_outdated_by_day(arg, months_threshold, now) ==
    IF arg.none \/ arg.text = <<>>
    THEN "True"
    ELSE LET update_date == strptime(arg.text)
         IN  IF ~update_date.ok
             THEN "True"
             ELSE IF update_date.day
                        < toordinal(now.y, now.m, now.d) - months_threshold * 30
                  THEN "True"
                  ELSE "False"

\* is_outdated(last_update_date, months_threshold) at the time `now`.
\* arg.none is `last_update_date is None`; "raised" is an exception that
\* leaves the function.
is_outdated(arg, months_threshold, now) ==
    IF arg.none \/ arg.text = <<>>
    THEN "True"
    ELSE LET update_date == strptime(arg.text)
             threshold_date == [day |-> toordinal(now.y, now.m, now.d)
                                            - months_threshold * 30,
                                sec |-> now.sec]
         IN  IF ~update_date.ok
             THEN "True"
             ELSE IF \/ update_date.day < threshold_date.day
                     \/ /\ update_date.day = threshold_date.day
                        /\ update_date.sec < threshold_date.sec
                  THEN "True"
                  ELSE "False"

\* The call sites pass the default months_threshold=12.
is_outdated_call ==
    /\ od_out = <<>>
    /\ od_out' = <<is_outdated(od_in, 12, od_now)>>
    /\ UNCHANGED <<od_in, od_now, mainVars, sessVars>>

\* Arguments: None, and texts written from year, month and day numbers
\* (zero-padded as strftime writes them, and unpadded), days that are in no
\* calendar included; src keeps the numbers a text was written from.
Fmt2(n) == <<Digits[(n \div 10) + 1], Digits[(n % 10) + 1]>>
Fmt4(n) == Fmt2(n \div 100) \o Fmt2(n % 100)
Bare(n) == IF n < 10 THEN <<Digits[n + 1]>> ELSE Fmt2(n)
Padded(y, m, d) == Fmt4(y) \o <<"-">> \o Fmt2(m) \o <<"-">> \o Fmt2(d)
Unpadded(y, m, d) == Fmt4(y) \o <<"-">> \o Bare(m) \o <<"-">> \o Bare(d)

OdYears == {2023, 2024}
DateArgs ==
    {[none |-> FALSE, text |-> Padded(y, m, d), src |-> <<y, m, d>>] :
        y \in OdYears, m \in 1 .. 12, d \in 1 .. 31}
    \cup {[none |-> FALSE, text |-> Unpadded(y, m, d), src |-> <<y, m, d>>] :
        y \in OdYears, m \in 1 .. 9, d \in 1 .. 9}
BadArgs ==
    {[none |-> TRUE, text |-> <<>>, src |-> <<>>],
     [none |-> FALSE, text |-> <<>>, src |-> <<>>],
     [none |-> FALSE, text |-> <<"n", "/", "a">>, src |-> <<>>],
     [none |-> FALSE, text |-> Fmt2(1) \o <<".">> \o Fmt2(6) \o <<".">> \o Fmt4(2024),
      src |-> <<>>],
     [none |-> FALSE, text |-> Padded(2024, 6, 1) \o <<" ">>, src |-> <<>>],
     [none |-> FALSE, text |-> Fmt4(2024) \o <<"-">> \o Fmt2(6), src |-> <<>>],
     [none |-> FALSE, text |-> Padded(2024, 0, 1), src |-> <<>>],
     [none |-> FALSE, text |-> Padded(2024, 13, 1), src |-> <<>>],
     [none |-> FALSE, text |-> Padded(0, 6, 1), src |-> <<>>]}
OdArgs == DateArgs \cup BadArgs

\* datetime.now(): a day and the seconds since its midnight.
OdNows ==
    {[y |-> 2024, m |-> md[1], d |-> md[2], sec |-> sec] :
        md \in {<<6, 1>>, <<12, 31>>, <<2, 29>>}, sec \in {0, 1, 86399}}

----------------------------------------------------------------------------
(* Browser sessions: each runs main() on its own thread, with its own    *)
(* `data` list and st.session_state, on the one data file and uploads    *)
(* directory.  A script run is taken in steps: the load, the handler's   *)
(* statements, the save.                                                 *)

Sessions == {1, 2}

\* The forms submitted in the sessions.
SessionForms == LifecycleForms \cup {Mix(BaseForm, AltForm, {"department"})}

\* The submission a run handles: the button pressed, the selected (or
\* created) id, the uploaded file, whether the run has saved, and the
\* lengths of the selected record's history and file_versions when the
\* handler began.
NoReq == [op |-> "none", id |-> "", file |-> NoFile, saved |-> FALSE,
          h0 |-> 0, v0 |-> 0]

\* No session has run yet.
NoSessions ==
    /\ pc = [s \in Sessions |-> "start"]
    /\ mem = [s \in Sessions |-> <<>>]
    /\ req = [s \in Sessions |-> NoReq]
    /\ flags = [s \in Sessions |-> {}]

\* A slip: a failed read is passed over and the file's list returned.
Loaded_ignores_failure(outcome) == load_data

\* load_data() with the read ending as `outcome`: open() or json.load
\* raising ("readfail") is caught by the bare except.
Loaded(outcome) == IF outcome = "readfail" THEN <<>> ELSE load_data

\* The step a session took, kept in lastOp.
Step(op, id, outcome) ==
    [op |-> op, id |-> id, outcome |-> outcome, file |-> FALSE, empty |-> FALSE]

\* data = load_data()
main_load(s, outcome) ==
    /\ pc[s] = "start"
    /\ outcome = "readfail" => disk.kind # "missing" /\ failures < MaxFailures
    /\ mem' = [mem EXCEPT ![s] = Loaded(outcome)]
    /\ pc' = [pc EXCEPT ![s] = "page"]
    /\ req' = [req EXCEPT ![s] = NoReq]
    /\ lastOp' = Step("load", "", outcome)
    /\ UNCHANGED <<disk, uploads, flags, nextId>>

\* add_instruction up to data.append(new_instruction)
page_add(s, form, file) ==
    LET id == uuid4(nextId + 1)
    IN  /\ pc[s] = "page"
        /\ AllFilled(form)
        /\ nextId < MaxAdds
        /\ nextId' = nextId + 1
        /\ uploads' = IF file # NoFile
                      THEN Put(uploads, <<id>> \o file.name, file.content)
                      ELSE uploads
        /\ mem' = [mem EXCEPT ![s] = Append(@, AddedRecord(id, form, file))]
        /\ req' = [req EXCEPT ![s] = [NoReq EXCEPT !.op = "add", !.id = id,
                                                   !.file = file]]
        /\ pc' = [pc EXCEPT ![s] = "save"]
        /\ lastOp' = Step("append", id, "ok")
        /\ UNCHANGED <<disk, flags>>

\* The index in the session's list of the record its run selected.
Sel(s) == FindIndex(mem[s], req[s].id)

\* edit_instruction, update pressed: the diff, instruction.update and the
\* Edit entry.
page_update_fields(s, selected_title, form, file) ==
    /\ pc[s] = "page"
    /\ mem[s] # <<>>
    /\ selected_title \in DOMAIN instruction_options(mem[s])
    /\ AllFilled(form)
    /\ LET selected_id == instruction_options(mem[s])[selected_title]
           idx == FindIndex(mem[s], selected_id)
           instruction == mem[s][idx]
       IN  /\ mem' = [mem EXCEPT ![s][idx] = EditFields(instruction, form)]
           /\ req' = [req EXCEPT ![s] =
                        [op |-> "update", id |-> selected_id, file |-> file,
                         saved |-> FALSE,
                         h0 |-> Len(instruction.history),
                         v0 |-> Len(instruction.file_versions)]]
           /\ pc' = [pc EXCEPT ![s] = IF file # NoFile THEN "archive" ELSE "save"]
           /\ lastOp' = Step("fields", selected_id, "ok")
    /\ UNCHANGED <<disk, uploads, flags, nextId>>

\* A slip: the old file is copied and removed with no file_versions entry.
ArchiveOld_unlisted(ins, up) ==
    LET old_filename == ins.filename
        version_filename ==
            <<ins.id, VTok(Len(ins.file_versions) + 1)>> \o Tail(old_filename)
    IN  IF WillArchive(ins, up)
        THEN [ins |-> ins,
              up |-> Remove(Put(up, version_filename, up[old_filename]),
                            old_filename)]
        ELSE [ins |-> ins, up |-> up]

\* The `if instruction.get('filename'):` block: the old file, when it is
\* there, is copied to its version name, entered in file_versions and
\* removed.
ArchiveOld(ins, up) ==
    LET old_filename == ins.filename
        version_num == Len(ins.file_versions) + 1
        original_name == Tail(old_filename)
        version_filename == <<ins.id, VTok(version_num)>> \o original_name
    IN  IF WillArchive(ins, up)
        THEN [ins |-> [ins EXCEPT !.file_versions =
                        Append(@, [version |-> version_num,
                                   filename |-> version_filename,
                                   original_name |-> original_name])],
              up |-> Remove(Put(up, version_filename, up[old_filename]),
                            old_filename)]
        ELSE [ins |-> ins, up |-> up]

page_update_archive(s) ==
    LET r == ArchiveOld(mem[s][Sel(s)], uploads)
    IN  /\ pc[s] = "archive"
        /\ mem' = [mem EXCEPT ![s][Sel(s)] = r.ins]
        /\ uploads' = r.up
        /\ pc' = [pc EXCEPT ![s] = "swap"]
        /\ lastOp' = Step("archive", req[s].id, "ok")
        /\ UNCHANGED <<disk, req, flags, nextId>>

\* The new file is written, then instruction['filename'] and
\* instruction['has_file'] are set.
page_update_swap(s) ==
    LET filename == <<req[s].id>> \o req[s].file.name
    IN  /\ pc[s] = "swap"
        /\ uploads' = Put(uploads, filename, req[s].file.content)
        /\ mem' = [mem EXCEPT ![s][Sel(s)].filename = filename,
                              ![s][Sel(s)].has_file = TRUE]
        /\ pc' = [pc EXCEPT ![s] = "entry"]
        /\ lastOp' = Step("swap", req[s].id, "ok")
        /\ UNCHANGED <<disk, req, flags, nextId>>

\* add_history_entry(instruction, 'Файл', ...)
page_update_entry(s) ==
    /\ pc[s] = "entry"
    /\ mem' = [mem EXCEPT ![s][Sel(s)] =
                add_history_entry(@, "File",
                    << <<"uploaded">> \o req[s].file.name >>)]
    /\ pc' = [pc EXCEPT ![s] = "save"]
    /\ lastOp' = Step("entry", req[s].id, "ok")
    /\ UNCHANGED <<disk, uploads, req, flags, nextId>>

\* edit_instruction, delete pressed: the first press sets the session's
\* flag and the script reruns; the next removes the file and the record.
page_delete(s, selected_title) ==
    /\ pc[s] = "page"
    /\ mem[s] # <<>>
    /\ selected_title \in DOMAIN instruction_options(mem[s])
    /\ LET selected_id == instruction_options(mem[s])[selected_title]
           instruction == mem[s][FindIndex(mem[s], selected_id)]
           request == [NoReq EXCEPT !.op = "delete", !.id = selected_id]
       IN  IF selected_id \notin flags[s]
           THEN /\ flags' = [flags EXCEPT ![s] = @ \cup {selected_id}]
                /\ req' = [req EXCEPT ![s] = request]
                /\ pc' = [pc EXCEPT ![s] = "start"]
                /\ lastOp' = Step("drop", selected_id, "confirm")
                /\ UNCHANGED <<mem, uploads>>
           ELSE /\ uploads' = IF WillArchive(instruction, uploads)
                              THEN Remove(uploads, instruction.filename)
                              ELSE uploads
                /\ mem' = [mem EXCEPT ![s] = ListRemove(@, instruction)]
                /\ req' = [req EXCEPT ![s] = request]
                /\ pc' = [pc EXCEPT ![s] = "save"]
                /\ lastOp' = Step("drop", selected_id, "ok")
                /\ UNCHANGED flags
    /\ UNCHANGED <<disk, nextId>>

\* A slip: a list is saved only while the data file is not well formed.
main_save_once(s) ==
    /\ pc[s] = "save"
    /\ disk' = IF disk.kind = "valid" THEN disk ELSE save_data(mem[s], "ok")
    /\ req' = [req EXCEPT ![s].saved = TRUE]
    /\ flags' = [flags EXCEPT ![s] =
                    IF req[s].op = "delete" THEN @ \ {req[s].id} ELSE @]
    /\ pc' = [pc EXCEPT ![s] = "start"]
    /\ lastOp' = Step("save", req[s].id, "ok")
    /\ UNCHANGED <<mem, uploads, nextId>>

\* save_data(data), and after a delete `del st.session_state[...]`; the
\* script run ends.
main_save(s) ==
    /\ pc[s] = "save"
    /\ disk' = save_data(mem[s], "ok")
    /\ req' = [req EXCEPT ![s].saved = TRUE]
    /\ flags' = [flags EXCEPT ![s] =
                    IF req[s].op = "delete" THEN @ \ {req[s].id} ELSE @]
    /\ pc' = [pc EXCEPT ![s] = "start"]
    /\ lastOp' = Step("save", req[s].id, "ok")
    /\ UNCHANGED <<mem, uploads, nextId>>

----------------------------------------------------------------------------
(* Specification *)

Init ==
    /\ disk = [kind |-> "missing", recs |-> <<>>]
    /\ uploads = <<>>
    /\ data = <<>>
    /\ session = {}
    /\ nextId = 0
    /\ lastOp = [op |-> "init", id |-> "", outcome |-> "ok", file |-> FALSE,
                 empty |-> FALSE]
    /\ ops = 0
    /\ failures = 0
    /\ od_in = [none |-> TRUE, text |-> <<>>, src |-> <<>>]
    /\ od_now = [y |-> 2024, m |-> 6, d |-> 1, sec |-> 0]
    /\ od_out = <<>>
    /\ NoSessions

\* The run is counted, and so is the I/O failure that ended it.
Count ==
    /\ ops' = ops + 1
    /\ failures' = IF lastOp'.outcome \in Failures THEN failures + 1 ELSE failures
    /\ UNCHANGED <<odVars, sessVars>>

\* The outcomes left to a run: no further failure once MaxFailures is reached.
Allowed(O) == IF failures < MaxFailures THEN O ELSE O \ Failures

\* One handler run, with the inputs drawn from the given sets.
Run(F, U, O, max) ==
    \/ \E form \in F, file \in U, outcome \in Allowed(O) :
          ops < max /\ add_instruction(form, file, outcome) /\ Count
    \/ \E selected_title \in Titles, form \in F, file \in U, outcome \in Allowed(O) :
          /\ ops < max
          /\ edit_instruction_update(selected_title, form, file, outcome)
          /\ Count
    \/ \E selected_title \in Titles, outcome \in Allowed(O) :
          ops < max /\ edit_instruction_delete(selected_title, outcome) /\ Count

\* The record lifecycle with I/O failures.
Next == Run(LifecycleForms, Files, Outcomes, MaxOps)

\* Form submissions with every form, without I/O failures.
NextFields == Run(Forms, FieldFiles, {"ok"}, MaxFieldOps)

Spec == Init /\ [][Next]_vars
SpecFields == Init /\ [][NextFields]_vars

\* is_outdated on its own: one call per argument and time.
InitOutdated ==
    /\ disk = [kind |-> "missing", recs |-> <<>>]
    /\ uploads = <<>>
    /\ data = <<>>
    /\ session = {}
    /\ nextId = 0
    /\ lastOp = [op |-> "init", id |-> "", outcome |-> "ok", file |-> FALSE,
                 empty |-> FALSE]
    /\ ops = 0
    /\ failures = 0
    /\ od_in \in OdArgs
    /\ od_now \in OdNows
    /\ od_out = <<>>
    /\ NoSessions

NextOutdated == is_outdated_call

SpecOutdated == InitOutdated /\ [][NextOutdated]_vars

\* Two sessions on one installation.  It starts fresh, or with one record
\* added with policy.pdf, or with that add's save cut short.
FirstRecord == AddedRecord(uuid4(1), BaseForm, File1)
InitSessions ==
    /\ \E k \in {"missing", "valid", "partial"} :
          /\ disk = IF k = "missing"
                    THEN [kind |-> "missing", recs |-> <<>>]
                    ELSE save_data(<<FirstRecord>>,
                                   IF k = "partial" THEN "savecut" ELSE "ok")
          /\ uploads = IF k = "missing"
                       THEN <<>>
                       ELSE Put(<<>>, <<uuid4(1)>> \o File1.name, File1.content)
          /\ nextId = IF k = "missing" THEN 0 ELSE 1
    /\ data = <<>>
    /\ session = {}
    /\ lastOp = [op |-> "init", id |-> "", outcome |-> "ok", file |-> FALSE,
                 empty |-> FALSE]
    /\ ops = 0
    /\ failures = 0
    /\ od_in = [none |-> TRUE, text |-> <<>>, src |-> <<>>]
    /\ od_now = [y |-> 2024, m |-> 6, d |-> 1, sec |-> 0]
    /\ od_out = <<>>
    /\ NoSessions

\* The step is counted, and so is a failed read.
CountStep ==
    /\ ops' = ops + 1
    /\ failures' = IF lastOp'.outcome = "readfail" THEN failures + 1 ELSE failures
    /\ UNCHANGED <<odVars, data, session>>

NextSessions ==
    \/ \E s \in Sessions, outcome \in {"ok", "readfail"} :
          ops < MaxSteps /\ main_load(s, outcome) /\ CountStep
    \/ \E s \in Sessions, form \in SessionForms, file \in FieldFiles :
          ops < MaxSteps /\ page_add(s, form, file) /\ CountStep
    \/ \E s \in Sessions, selected_title \in Titles,
          form \in SessionForms, file \in FieldFiles :
          /\ ops < MaxSteps
          /\ page_update_fields(s, selected_title, form, file)
          /\ CountStep
    \/ \E s \in Sessions : ops < MaxSteps /\ page_update_archive(s) /\ CountStep
    \/ \E s \in Sessions : ops < MaxSteps /\ page_update_swap(s) /\ CountStep
    \/ \E s \in Sessions : ops < MaxSteps /\ page_update_entry(s) /\ CountStep
    \/ \E s \in Sessions, selected_title \in Titles :
          ops < MaxSteps /\ page_delete(s, selected_title) /\ CountStep
    \/ \E s \in Sessions : ops < MaxSteps /\ main_save(s) /\ CountStep

SpecSessions == InitSessions /\ [][NextSessions]_vars

----------------------------------------------------------------------------
(* Properties *)

\* The records of a list, and the record with a given id.
Records(d) == {d[i] : i \in DOMAIN d}
HasId(d, id) == \E r \in Records(d) : r.id = id
Rec(d, id) == d[FindIndex(d, id)]
Types(history) == [i \in DOMAIN history |-> history[i].change_type]

\* C1: in every record of the in-memory list and of the persisted list,
\* after every handler run, has_file is true exactly when filename is set.
C1_HasFileIffFilename ==
    \A r \in Records(data) \cup Records(disk.recs) :
        r.has_file <=> (r.filename # None)

\* A record created without a file got its first file by an update.
C1_Witness ==
    /\ lastOp.op = "update" /\ lastOp.outcome = "ok" /\ lastOp.file
    /\ \E r \in Records(data) :
          /\ r.id = lastOp.id
          /\ Types(r.history) = <<"Create", "File">>
          /\ r.has_file /\ r.filename # None
    /\ \E r \in Records(data) : ~r.has_file /\ r.filename = None

\* C5: a successful add appends a record whose history is [Create], or
\* [Create, File] when a file came with the form, whose file_versions is
\* empty and whose has_file tells whether a file came with the form.
C5_AddedRecordShape ==
    (lastOp.op = "add" /\ lastOp.outcome = "ok") =>
        /\ data # <<>>
        /\ disk = [kind |-> "valid", recs |-> data]
        /\ LET r == data[Len(data)]
           IN  /\ r.id = lastOp.id
               /\ Types(r.history) =
                    IF lastOp.file THEN <<"Create", "File">> ELSE <<"Create">>
               /\ r.file_versions = <<>>
               /\ r.has_file = lastOp.file

C5_Witness ==
    /\ lastOp.op = "add" /\ lastOp.outcome = "ok" /\ lastOp.file
    /\ Len(data) = 2
    /\ Types(data[2].history) = <<"Create", "File">>

\* The uploads recorded in a persisted history: every upload that a
\* handler run stored and saved wrote one File entry.
FileEntries(history) == {i \in DOMAIN history : history[i].change_type = "File"}
LastUploadName(history) == Tail(history[Max(FileEntries(history))].details[1])

\* C2: a persisted record that took N replacements of its current file
\* (the uploads after its first) has exactly N file_versions entries,
\* numbered 1..N in list order, and its current file is the last upload.
C2_VersionsCountReplacements ==
    \A r \in Records(load_data) :
        FileEntries(r.history) # {} =>
            /\ Len(r.file_versions) = Cardinality(FileEntries(r.history)) - 1
            /\ \A i \in DOMAIN r.file_versions : r.file_versions[i].version = i
            /\ r.filename = <<r.id>> \o LastUploadName(r.history)

\* The record a successful update with an upload was applied to, before it.
ReplacedRecord == Rec(load_data, lastOp'.id)
IsReplacement ==
    /\ lastOp'.op = "update" /\ lastOp'.outcome = "ok" /\ lastOp'.file
    /\ ReplacedRecord.filename # None

\* C3: a replacement of the current file appends exactly one file_versions
\* entry, and it captures the replaced file: its original_name is the old
\* file's name and the bytes stored under it are the old file's bytes.
C3_VersionCapturesReplaced ==
    [][IsReplacement =>
        LET old == ReplacedRecord
            new == Rec(data', lastOp'.id)
            n == Len(old.file_versions) + 1
        IN  /\ Len(new.file_versions) = n
            /\ SubSeq(new.file_versions, 1, n - 1) = old.file_versions
            /\ new.file_versions[n].original_name = Tail(old.filename)
            /\ Exists(uploads, old.filename)
            /\ Exists(uploads', new.file_versions[n].filename)
            /\ uploads'[new.file_versions[n].filename] = uploads[old.filename]
      ]_vars

\* The record a successful update was applied to, before and after it.
IsUpdate == lastOp'.op = "update" /\ lastOp'.outcome = "ok"
Before == Rec(load_data, lastOp'.id)
After == Rec(data', lastOp'.id)

\* C4: an update that changes none of the six fields appends no Edit
\* entry; one that changes some appends exactly one, whose details name
\* every changed field once and no other field.
C4_OneEditEntryPerChangingUpdate ==
    [][IsUpdate =>
        LET changed == {k \in FieldNames : Before[k] # After[k]}
            added == SubSeq(After.history, Len(Before.history) + 1,
                            Len(After.history))
            edits == {i \in DOMAIN added : added[i].change_type = "Edit"}
        IN  /\ Cardinality(edits) = IF changed = {} THEN 0 ELSE 1
            /\ \A i \in edits :
                  /\ {c[1] : c \in Records(added[i].details)} = changed
                  /\ Len(added[i].details) = Cardinality(changed)
      ]_vars

\* An update that changed two fields at once left one Edit entry.
C4_Witness ==
    /\ lastOp.op = "update" /\ lastOp.outcome = "ok"
    /\ \E r \in Records(data) :
          /\ r.id = lastOp.id
          /\ Types(r.history) = <<"Create", "Edit">>
          /\ Len(r.history[2].details) = 2

\* C6: a form with an empty required field changes nothing: the list in
\* memory is the list loaded, and the data file and the uploads directory
\* are as they were, whether or not a file came with the form.
C6_InvalidFormChangesNothing ==
    [][(lastOp'.op \in {"add", "update"} /\ lastOp'.empty) =>
        /\ data' = load_data
        /\ disk' = disk
        /\ uploads' = uploads
      ]_vars

\* An update form with an empty field and a file was submitted for a
\* record that has a stored file.
C6_Witness ==
    /\ lastOp.op = "update" /\ lastOp.empty /\ lastOp.file
    /\ \E r \in Records(data) : r.id = lastOp.id /\ Exists(uploads, r.filename)

\* The calendar, walked back a month at a time (years 1901 to 2099).
C7_MonthLengths == <<31, 28, 31, 30, 31, 30, 31, 31, 30, 31, 30, 31>>
C7_LastDay(y, m) == IF m = 2 /\ y % 4 = 0 THEN 29 ELSE C7_MonthLengths[m]
C7_EndOfMonthBefore(t) ==
    IF t[2] > 1 THEN <<t[1], t[2] - 1, C7_LastDay(t[1], t[2] - 1)>>
    ELSE <<t[1] - 1, 12, 31>>
\* The day n days before the day t.
RECURSIVE C7_DaysBack(_, _)
C7_DaysBack(t, n) ==
    IF n < t[3] THEN <<t[1], t[2], t[3] - n>>
    ELSE C7_DaysBack(C7_EndOfMonthBefore(t), n - t[3])
C7_Earlier(a, b) ==
    \/ a[1] < b[1]
    \/ a[1] = b[1] /\ a[2] < b[2]
    \/ a[1] = b[1] /\ a[2] = b[2] /\ a[3] < b[3]
\* The argument is the text of a day of the calendar.
C7_IsDate(arg) ==
    /\ arg.src # <<>>
    /\ arg.src[3] <= C7_LastDay(arg.src[1], arg.src[2])

\* C7: is_outdated(d) returns and never raises; it is true when d is
\* absent or is no date, and otherwise true exactly when midnight of d is
\* strictly before now minus 360 days: always for a d more than 360 days
\* back, never for today, whatever the time of day.
C7_IsOutdatedTotal ==
    od_out # <<>> =>
        LET today == <<od_now.y, od_now.m, od_now.d>>
            limit == C7_DaysBack(today, 360)
            d == od_in.src
        IN  /\ od_out[1] \in {"True", "False"}
            /\ ~C7_IsDate(od_in) => od_out[1] = "True"
            /\ C7_IsDate(od_in) =>
                  /\ od_out[1] = "True" <=>
                        \/ C7_Earlier(d, limit)
                        \/ d = limit /\ od_now.sec > 0
                  /\ C7_Earlier(d, limit) => od_out[1] = "True"
                  /\ d = today => od_out[1] = "False"

\* The day exactly 360 days back is outdated once the day has begun.
C7_Witness ==
    /\ od_out = <<"True">>
    /\ C7_IsDate(od_in)
    /\ od_in.src = C7_DaysBack(<<od_now.y, od_now.m, od_now.d>>, 360)
    /\ od_now.sec > 0

\* The record a confirmed delete removed, as it was before.
IsDelete == lastOp'.op = "delete" /\ lastOp'.outcome = "ok"
Deleted == Rec(load_data, lastOp'.id)
VersionFiles(r) == {r.file_versions[i].filename : i \in DOMAIN r.file_versions}

\* C8: a confirmed delete of a record with a current file and archived
\* versions leaves no record of that id in memory or in the data file,
\* removes the current file, leaves every other record and every other
\* stored file as it was, and leaves the record's archived version files
\* in the uploads directory.
C8_DeleteRetainsVersions ==
    [][(IsDelete /\ Deleted.filename # None /\ Deleted.file_versions # <<>>) =>
        /\ ~HasId(data', lastOp'.id)
        /\ disk'.kind = "valid" /\ ~HasId(disk'.recs, lastOp'.id)
        /\ ~Exists(uploads', Deleted.filename)
        /\ data' = ListRemove(load_data, Deleted)
        /\ \A n \in DOMAIN uploads \ {Deleted.filename} :
              Exists(uploads', n) /\ uploads'[n] = uploads[n]
        /\ \A n \in VersionFiles(Deleted) :
              Exists(uploads, n) => Exists(uploads', n)
      ]_vars

\* C9: a file replacement in which the copy, the removal or the write
\* raises leaves the data file and the uploads directory as they were.
C9_ReplacementFailsAtomically ==
    [][(lastOp'.op = "update" /\ lastOp'.file
            /\ lastOp'.outcome \in {"copy", "remove", "write"}) =>
        /\ disk' = disk
        /\ uploads' = uploads
      ]_vars

\* C10: a save that is interrupted leaves the data file holding the
\* collection saved before it; the file never holds a truncated or partly
\* written text.
C10_SaveIsAtomic ==
    [][/\ disk'.kind # "partial"
       /\ lastOp'.outcome = "savecut" => disk' = disk
      ]_vars

\* s is an initial part of t.
IsPrefix(s, t) == Len(s) <= Len(t) /\ SubSeq(t, 1, Len(s)) = s

\* The number of add_history_entry calls of the run that just ended, for
\* the record it selected: one when a field changed, one when the upload
\* was written.
EntriesWritten(old, new) ==
    (IF \E k \in FieldNames : old[k] # new[k] THEN 1 ELSE 0)
        + (IF lastOp'.op = "update" /\ lastOp'.file
                /\ lastOp'.outcome \in {"ok", "savecut"}
           THEN 1 ELSE 0)

\* C12: in every handler run (add, update with or without changed fields,
\* upload, delete request) each record that stays in the list keeps its
\* earlier history entries unchanged and in order, in memory and in the
\* data file; the run adds to the selected record exactly one entry per
\* add_history_entry call, at the end, and nothing to any other record.
C12_HistoryAppendOnly ==
    [][/\ \A r \in Records(load_data) :
            HasId(data', r.id) =>
                LET new == Rec(data', r.id)
                IN  /\ IsPrefix(r.history, new.history)
                    /\ Len(new.history) - Len(r.history) =
                          IF r.id = lastOp'.id THEN EntriesWritten(r, new) ELSE 0
       /\ (disk.kind = "valid" /\ disk'.kind = "valid") =>
            \A r \in Records(disk.recs) :
                HasId(disk'.recs, r.id) =>
                    IsPrefix(r.history, Rec(disk'.recs, r.id).history)
      ]_vars

\* An update that changed fields and replaced the file added an Edit and
\* a File entry after the two entries the record had.
C12_Witness ==
    /\ lastOp.op = "update" /\ lastOp.outcome = "ok" /\ lastOp.file
    /\ \E r \in Records(disk.recs) :
          /\ r.id = lastOp.id
          /\ Types(r.history) = <<"Create", "File", "Edit", "File">>
    /\ Len(data) = 2

\* The ids of a list, in list order.
Ids(d) == [i \in DOMAIN d |-> d[i].id]
Distinct(ids) == \A i, j \in DOMAIN ids : i # j => ids[i] # ids[j]

\* C13: after every handler run the ids of the records are pairwise
\* distinct, in memory and in the data file, and an update (of fields, of
\* the file, or both) leaves the id of every record as it was.
C13_IdsDistinctAndStable ==
    [][/\ Distinct(Ids(data'))
       /\ Distinct(Ids(disk'.recs))
       /\ lastOp'.op = "update" => Ids(data') = Ids(load_data)
      ]_vars

\* Of two records the second had its fields and its file replaced.
C13_Witness ==
    /\ lastOp.op = "update" /\ lastOp.outcome = "ok" /\ lastOp.file
    /\ Len(data) = 2
    /\ lastOp.id = uuid4(2)
    /\ data[1].id = uuid4(1) /\ data[2].id = uuid4(2)
    /\ data[2].file_versions # <<>>
    /\ Types(data[2].history) = <<"Create", "File", "Edit", "File">>

\* C14: in every record, in memory and in the data file, each archived
\* version is named <id>_v<version>_<original name>, and the versions of
\* one record have pairwise distinct numbers and names, also when the same
\* file name is uploaded again and again; a replacement that archives a
\* version copies it to a name no earlier version of the record has.
C14_VersionNamesDistinct ==
    [][/\ \A r \in Records(data') \cup Records(disk'.recs) :
            LET fv == r.file_versions
            IN  /\ \A i \in DOMAIN fv :
                      fv[i].filename =
                          <<r.id, VTok(fv[i].version)>> \o fv[i].original_name
                /\ \A i, j \in DOMAIN fv :
                      i # j => /\ fv[i].version # fv[j].version
                               /\ fv[i].filename # fv[j].filename
       /\ (lastOp'.op = "update" /\ lastOp'.file) =>
            LET old == Rec(load_data, lastOp'.id)
                new == Rec(data', lastOp'.id)
            IN  \A i \in DOMAIN new.file_versions \ DOMAIN old.file_versions :
                    new.file_versions[i].filename \notin VersionFiles(old)
      ]_vars

\* The same file name was uploaded three times for one record: two
\* archived versions with the same original name, both stored.
C14_Witness ==
    \E r \in Records(disk.recs) :
        /\ Len(r.file_versions) = 2
        /\ r.file_versions[1].original_name = r.file_versions[2].original_name
        /\ \A n \in VersionFiles(r) : Exists(uploads, n)
        /\ Cardinality(VersionFiles(r)) = 2

\* C18: a delete submission for a record whose confirm_delete_<id> flag is
\* not set removes nothing: the list, the data file and the uploads
\* directory are as they were and only that flag becomes set.  The record
\* leaves the list only in a delete submission that finds the flag set,
\* and a completed delete clears the flag.  No other run sets a flag.
C18_DeleteIsTwoStep ==
    [][/\ session' \ session \subseteq
            (IF lastOp'.op = "delete" THEN {lastOp'.id} ELSE {})
       /\ lastOp'.op = "delete" =>
            LET id == lastOp'.id
            IN  /\ id \notin session =>
                      /\ lastOp'.outcome = "confirm"
                      /\ data' = load_data
                      /\ disk' = disk
                      /\ uploads' = uploads
                      /\ session' = session \cup {id}
                /\ ~HasId(data', id) => id \in session
                /\ lastOp'.outcome = "ok" =>
                      /\ id \in session
                      /\ id \notin session'
                      /\ ~HasId(data', id)
                      /\ ~HasId(disk'.recs, id)
      ]_vars

\* A record was deleted by the second of two presses: another record
\* stays, no stored file carries the deleted id and no flag is left set.
C18_Witness ==
    /\ lastOp.op = "delete" /\ lastOp.outcome = "ok"
    /\ session = {}
    /\ Len(data) = 1 /\ data[1].id # lastOp.id
    /\ \A n \in DOMAIN uploads : n[1] # lastOp.id
    /\ nextId = 2

\* C19: a delete submission goes past the confirmation (removes the
\* record, or raises while removing it) only directly after a delete
\* submission for the same record: after any other run the next delete
\* submission for the record only requests confirmation.
C19_DeleteNeedsConsecutivePresses ==
    [][(lastOp'.op = "delete" /\ lastOp'.outcome # "confirm") =>
            /\ lastOp.op = "delete"
            /\ lastOp.id = lastOp'.id
      ]_vars

\* The titles offered by the selectbox that resolve to the record id.
SelectionsFor(d, id) ==
    {t \in DOMAIN instruction_options(d) : instruction_options(d)[t] = id}

\* C20: after every handler run, each record of the list has a selection
\* on the edit page that resolves to it, also when records share a title;
\* and an update or delete changes no record but the selected one.
C20_EveryRecordSelectable ==
    [][/\ \A r \in Records(data') : SelectionsFor(data', r.id) # {}
       /\ lastOp'.op \in {"update", "delete"} =>
            \A r \in Records(load_data) :
                r.id # lastOp'.id => r \in Records(data')
      ]_vars

\* The step in which session s loads the list.
LoadStep(s) == pc[s] = "start" /\ pc'[s] = "page"

\* C11: load returns and never raises: it gives the empty list when the
\* data file is missing, holds a cut-off text, or cannot be read, and
\* exactly the persisted list when the file is well formed and read; the
\* data file and the uploads directory are as they were.
C11_LoadNeverFails ==
    [][\A s \in Sessions :
        LoadStep(s) =>
            /\ lastOp'.op = "load"
            /\ mem'[s] = IF disk.kind = "valid" /\ lastOp'.outcome = "ok"
                         THEN disk.recs
                         ELSE <<>>
            /\ disk' = disk
            /\ uploads' = uploads
      ]_vars

\* One session loaded the persisted records; the other's read of the same
\* well-formed file failed and it holds the empty list.
C11_Witness ==
    /\ lastOp.op = "load" /\ lastOp.outcome = "readfail"
    /\ disk.kind = "valid" /\ disk.recs # <<>>
    /\ \E s, t \in Sessions :
          /\ pc[s] = "page" /\ mem[s] = disk.recs
          /\ pc[t] = "page" /\ mem[t] = <<>>

\* The step in which session s saves its list.
SaveStep(s) == pc[s] = "save" /\ pc'[s] = "start"

\* The history entries and the file_versions entries of the record with
\* the given id in a list, each with its position.
Entries(d, id) ==
    IF HasId(d, id)
    THEN {<<"history", i, Rec(d, id).history[i]>> :
                i \in DOMAIN Rec(d, id).history}
         \cup {<<"file_versions", i, Rec(d, id).file_versions[i]>> :
                i \in DOMAIN Rec(d, id).file_versions}
    ELSE {}

\* C15: two sessions load, edit and save with no coordination.  Every save
\* succeeds and writes the saving session's own list over the data file,
\* so each persisted history or file_versions entry that the saving
\* session does not hold (another session saved it in between) is gone
\* from the data file after the save.
C15_SaveClobbersOtherSession ==
    [][\A s \in Sessions :
        SaveStep(s) =>
            /\ disk'.kind = "valid"
            /\ \A r \in Records(load_data) :
                  \A e \in Entries(load_data, r.id) :
                      e \notin Entries(mem[s], r.id) =>
                          e \notin Entries(disk'.recs, r.id)
      ]_vars

\* Both sessions loaded the record, each changed other fields and saved:
\* both saves succeeded, and the Edit entry that session t appended and
\* saved is not in the persisted history, which holds that of s.
C15_Witness ==
    \E s, t \in Sessions :
        /\ s # t
        /\ pc[s] = "start" /\ pc[t] = "start"
        /\ req[s].op = "update" /\ req[s].saved
        /\ req[t].op = "update" /\ req[t].saved
        /\ req[s].id = req[t].id
        /\ disk = [kind |-> "valid", recs |-> mem[s]]
        /\ LET mine == Rec(mem[t], req[t].id).history
               kept == Rec(disk.recs, req[t].id).history
           IN  /\ Len(mine) = req[t].h0 + 1
               /\ Len(kept) = req[s].h0 + 1
               /\ req[s].h0 = req[t].h0
               /\ mine[Len(mine)].change_type = "Edit"
               /\ \A i \in DOMAIN kept : kept[i] # mine[Len(mine)]

\* C16: a record that is in the persisted list stays in it through every
\* step of every session (the load, a load whose read fails, add, update,
\* save) except the save of a confirmed delete of that record.
C16_NoRecordSilentlyDropped ==
    [][\A r \in Records(load_data) :
        \/ HasId(IF disk'.kind = "valid" THEN disk'.recs ELSE <<>>, r.id)
        \/ \E s \in Sessions :
              /\ SaveStep(s)
              /\ req[s].op = "delete"
              /\ req[s].id = r.id
      ]_vars

\* The steps of a file replacement in session s, and the selected record
\* before and after a step.
ArchiveStep(s) == pc[s] = "archive" /\ pc'[s] = "swap"
SwapStep(s) == pc[s] = "swap" /\ pc'[s] = "entry"
EntryStep(s) == pc[s] = "entry" /\ pc'[s] = "save"
Selected(s) == mem[s][Sel(s)]
SelectedAfter(s) == mem'[s][Sel(s)]
\* The types of the history entries the run has written so far.
Written(s) ==
    Types(SubSeq(Selected(s).history, req[s].h0 + 1, Len(Selected(s).history)))
NewName(s) == <<req[s].id>> \o req[s].file.name

\* C17 as stated: when the current file reference is swapped, the
\* file_versions entry of the replaced file and the File history entry of
\* the upload are already written, the Edit entry (if any) before the File
\* entry.
C17_EntriesBeforeSwap ==
    [][\A s \in Sessions :
        /\ ArchiveStep(s) =>
              /\ SelectedAfter(s).filename = Selected(s).filename
              /\ Len(SelectedAfter(s).file_versions) =
                    req[s].v0 + (IF WillArchive(Selected(s), uploads) THEN 1 ELSE 0)
        /\ SwapStep(s) =>
              /\ SelectedAfter(s).filename = NewName(s)
              /\ SelectedAfter(s).file_versions = Selected(s).file_versions
              /\ Written(s) \in {<<"File">>, <<"Edit", "File">>}
      ]_vars

\* C17 as the code runs: the file_versions entry of the replaced file is
\* written first, with the file reference still the old one; then the
\* reference is swapped to the new file, with no File entry written yet;
\* then the single File entry is appended, after the Edit entry when the
\* same update changed fields.
C17_ReplacementOrder ==
    [][\A s \in Sessions :
        /\ ArchiveStep(s) =>
              /\ SelectedAfter(s).filename = Selected(s).filename
              /\ SelectedAfter(s).history = Selected(s).history
              /\ Len(SelectedAfter(s).file_versions) =
                    req[s].v0 + (IF WillArchive(Selected(s), uploads) THEN 1 ELSE 0)
              /\ WillArchive(Selected(s), uploads) =>
                    SelectedAfter(s).file_versions[req[s].v0 + 1].original_name
                        = Tail(Selected(s).filename)
        /\ SwapStep(s) =>
              /\ SelectedAfter(s).filename = NewName(s)
              /\ SelectedAfter(s).has_file
              /\ SelectedAfter(s).file_versions = Selected(s).file_versions
              /\ SelectedAfter(s).history = Selected(s).history
              /\ Written(s) \in {<<>>, <<"Edit">>}
        /\ EntryStep(s) =>
              /\ Selected(s).filename = NewName(s)
              /\ SelectedAfter(s).filename = NewName(s)
              /\ SelectedAfter(s).file_versions = Selected(s).file_versions
              /\ Written(s) \in {<<>>, <<"Edit">>}
              /\ Types(SelectedAfter(s).history)
                    = Types(Selected(s).history) \o <<"File">>
              /\ IsPrefix(Selected(s).history, SelectedAfter(s).history)
      ]_vars

\* A replacement that also changed fields has run up to its save: one new
\* file_versions entry, the reference swapped, and Edit then File written.
C17_Witness ==
    \E s \in Sessions :
        /\ pc[s] = "save" /\ req[s].op = "update" /\ req[s].file # NoFile
        /\ Written(s) = <<"Edit", "File">>
        /\ Len(Selected(s).file_versions) = req[s].v0 + 1
        /\ Selected(s).filename = NewName(s)
        /\ lastOp.op = "entry"

\* C21: an update that writes a new current file stores it under a name
\* that no archived version of the record has, whatever the uploaded
\* file is called; the write leaves every archived version of the record
\* in place with the bytes archived under it.
C21_CurrentNameNeverAVersionName ==
    [][(lastOp'.op = "update" /\ lastOp'.file
            /\ lastOp'.outcome \in {"ok", "savecut"}) =>
        LET old == Rec(load_data, lastOp'.id)
            new == Rec(data', lastOp'.id)
        IN  /\ new.filename \notin VersionFiles(new)
            /\ \A n \in VersionFiles(old) :
                  Exists(uploads, n) =>
                      Exists(uploads', n) /\ uploads'[n] = uploads[n]
            /\ \A i \in DOMAIN new.file_versions \ DOMAIN old.file_versions :
                  /\ Exists(uploads', new.file_versions[i].filename)
                  /\ uploads'[new.file_versions[i].filename]
                        = uploads[old.filename]
      ]_vars

====
